---- MODULE Spec2Model ----
(***************************************************************************)
(* Model of the event store of the daily cigarettes tracker                *)
(* (src/utils/storage.ts) and of the day bucketing built on it.            *)
(*                                                                         *)
(* Time.  An instant is a whole number of hours since the epoch (UTC).     *)
(* The code's clock counts milliseconds; the model's clock counts hours,   *)
(* and two reads of the clock within one granule agree, as two reads       *)
(* within one millisecond do in the code.                                  *)
(*                                                                         *)
(* Storage.  AsyncStorage holds one string (or nothing) under STORAGE_KEY. *)
(* getItem and setItem are asynchronous and either of them may reject.     *)
(* The code between two awaits runs without interruption (one JavaScript   *)
(* thread), so every action below is one such stretch of code.             *)
(***************************************************************************)
EXTENDS Integers, Sequences, FiniteSets, TLC

VARIABLES
    disk,      \* value AsyncStorage holds under STORAGE_KEY
    clock,     \* the device clock (new Date(), Date.now())
    tz,        \* the device's time zone
    calls,     \* the store calls in flight, one per slot
    started,   \* number of store calls issued so far
    last,      \* the store call that completed most recently
    prev,      \* the store call that completed before it
    bucketCall, \* the most recent getLogsByDay call and what it returned
    home,      \* the home screen: its React state and its handlers in flight
    pref,      \* the stored preferences and the last call on them
    view,      \* what the trends or the costs screen last computed
    settings,  \* the settings screens: their text fields and last save
    nav        \* the route shown and the last routing step

vars == <<disk, clock, tz, calls, started, last, prev, bucketCall, home, pref,
          view, settings, nav>>

\* What the operations on the log collection leave alone: the screens'
\* state and the preferences.
screenVars == <<home, pref, view, settings, nav>>

----------------------------------------------------------------------------
(* Bounds of the model *)

MaxOps == 3
MaxDays == 3
MaxLogs == 2
MaxGoal == 2
MaxCost == 2

Slots == {1, 2}

\* The readings the device clock takes while the store is exercised: two
\* entries can be built within one reading or in different ones.
Readings == {0, 1}

----------------------------------------------------------------------------
(* Time: Date, date-fns format / parseISO *)

HoursPerDay == 24

\* A time zone: the offset from UTC in hours, and one instant at which the
\* local clock shifts by `shift` hours (0: the zone has no shift).
UTC == [std |-> 0, at |-> 0, shift |-> 0]

\* The days the bucketing is checked on: days FirstDay .. FirstDay + 2,
\* the local clock shifting in the night of the middle one.
FirstDay == 10

ShiftAt == (FirstDay + 1) * HoursPerDay

\* Zones without a shift, west and east of Greenwich; a zone whose clock is
\* put forward one hour (spring) and one whose clock is put back (autumn),
\* both at 01:00 UTC.
Zones ==
    {UTC,
     [std |-> -5, at |-> 0, shift |-> 0],
     [std |-> 9, at |-> 0, shift |-> 0],
     [std |-> 0, at |-> ShiftAt + 1, shift |-> 1],
     [std |-> 1, at |-> ShiftAt + 1, shift |-> -1]}

Nows == ((FirstDay + 1) * HoursPerDay)..((FirstDay + 3) * HoursPerDay - 1)

\* The instants entries are logged at: an early and a late hour (UTC) of
\* the days of the window.
Stamps ==
    {FirstDay * HoursPerDay + 23, (FirstDay + 1) * HoursPerDay + 2,
     (FirstDay + 1) * HoursPerDay + 23, (FirstDay + 2) * HoursPerDay + 2}

\* Date.prototype.getTimezoneOffset, negated: local time minus UTC at t.
Offset(z, t) == z.std + (IF t >= z.at THEN z.shift ELSE 0)

\* format(date, 'yyyy-MM-dd'): the local calendar date of an instant.  The
\* key is modelled by the day number of that date (days since 1970-01-01).
FormatDate(z, t) == (t + Offset(z, t)) \div HoursPerDay

\* Date.prototype.getHours: the local hour of an instant.
GetHours(z, t) == (t + Offset(z, t)) % HoursPerDay

\* new Date('yyyy-MM-dd'): a date-only string is read as UTC midnight.
DateFromKey(k) == k * HoursPerDay

\* Date.prototype.toISOString: the UTC date and hour of the instant.
toISOString(t) == [day |-> t \div HoursPerDay, hour |-> t % HoursPerDay]

\* parseISO of a string toISOString wrote.
parseISO(s) == s.day * HoursPerDay + s.hour

----------------------------------------------------------------------------
(* Storage values and JSON *)

\* AsyncStorage.getItem resolves with null when the key is absent.
Null == [kind |-> "null", items |-> <<>>]

\* A stored string that is not JSON.
Garbage == [kind |-> "garbage", items |-> <<>>]

JSONStringify(logs) == [kind |-> "json", items |-> logs]

JSONParseThrows(s) == s.kind # "json"

JSONParse(s) == s.items

\* The entry addLog synthesizes, and the one the home screen builds, at
\* clock reading t.
NewLog(t) == [id |-> ToString(t), timestamp |-> toISOString(t)]

NoLog == [id |-> "", timestamp |-> toISOString(0)]

\* getLogs, given how getItem ended: what it returns.
getLogs(rejected, value) ==
    IF rejected THEN <<>>
    ELSE IF value.kind = "null" THEN <<>>
    ELSE IF JSONParseThrows(value) THEN <<>>
    ELSE JSONParse(value)

\* getLogs without its try / catch: a rejected read and a failed parse
\* reach the caller.
getLogsNoCatch(rejected, value) ==
    rejected \/ (value.kind # "null" /\ JSONParseThrows(value))

\* getLogs, given how getItem ended: whether it rejects.  Its catch covers
\* the read and the parse, and returns [].
getLogsThrows(rejected, value) == FALSE

\* saveLogs with a catch that logs the error and does not rethrow it.
saveLogsSwallows(rejected) == FALSE

\* saveLogs, given how setItem ended: whether it rejects.  It rethrows what
\* setItem rejected with; addLog and removeLog rethrow what saveLogs threw.
saveLogsThrows(rejected) == rejected

\* logs.filter(log => log.id !== id)
RECURSIVE FilterOut(_, _)
FilterOut(logs, id) ==
    IF logs = <<>> THEN <<>>
    ELSE IF Head(logs).id # id
         THEN <<Head(logs)>> \o FilterOut(Tail(logs), id)
         ELSE FilterOut(Tail(logs), id)

----------------------------------------------------------------------------
(* Store calls *)

Idle == [pc |-> "idle", op |-> "none", given |-> FALSE, log |-> NoLog,
         id |-> "", before |-> Null, readOk |-> TRUE, updated |-> <<>>,
         stale |-> FALSE]

NoCall == [op |-> "none", log |-> NoLog, id |-> "", before |-> Null,
           readOk |-> TRUE, writeOk |-> TRUE, threw |-> FALSE,
           ret |-> <<>>, stale |-> FALSE]

\* A caller issues addLog(log), addLog() or removeLog(id).  The call runs up
\* to its first await: getLogs has requested AsyncStorage.getItem.
\* Slots only name the calls in flight: a new call takes the lowest free one.
Call(s, op, given, log, id) ==
    /\ calls[s].pc = "idle"
    /\ \A x \in Slots : x < s => calls[x].pc # "idle"
    /\ started < MaxOps
    /\ calls' = [calls EXCEPT ![s] =
                    [Idle EXCEPT !.pc = "read", !.op = op, !.given = given,
                                 !.log = log, !.id = id]]
    /\ started' = started + 1
    /\ UNCHANGED <<disk, clock, tz, last, prev, bucketCall>>

\* The home screen's addCigarette builds the entry from the clock and
\* passes it to addLog.
CallAddLogGiven(s) == Call(s, "addLog", TRUE, NewLog(clock), "")

\* addLog() without an argument.
CallAddLog(s) == Call(s, "addLog", FALSE, NoLog, "")

CallRemoveLog(s) ==
    \E t \in 0..clock : Call(s, "removeLog", FALSE, NoLog, ToString(t))

\* The record of a completed call.
Completed(c, writeOk, threw, ret) ==
    [op |-> c.op, log |-> c.log, id |-> c.id, before |-> c.before,
     readOk |-> c.readOk, writeOk |-> writeOk, threw |-> threw,
     ret |-> ret, stale |-> c.stale]

\* A getLogs call of a screen.  Its one effect on the store is the read, so
\* the call and the settling of getItem are one step.
CallGetLogs(rejected) ==
    /\ started < MaxOps
    /\ started' = started + 1
    /\ prev' = last
    /\ last' = [NoCall EXCEPT !.op = "getLogs", !.before = disk,
                              !.readOk = ~rejected,
                              !.threw = getLogsThrows(rejected, disk),
                              !.ret = getLogs(rejected, disk)]
    /\ UNCHANGED <<disk, clock, tz, calls, bucketCall>>

\* getItem settles inside getLogs; getLogs returns to addLog / removeLog,
\* which compute updatedLogs and request the write (saveLogs, setItem).
\* Were getLogs to reject, their catch would rethrow to the caller.
GetItemDone(s, rejected) ==
    LET c == calls[s]
        logs == getLogs(rejected, disk)
        newLog == IF c.given THEN c.log ELSE NewLog(clock)
        updatedLogs == IF c.op = "addLog" THEN Append(logs, newLog)
                       ELSE FilterOut(logs, c.id)
        read == [c EXCEPT !.before = disk, !.readOk = ~rejected,
                          !.log = IF c.op = "addLog" THEN newLog ELSE NoLog]
    IN  /\ c.pc = "read"
        /\ IF getLogsThrows(rejected, disk)
           THEN /\ calls' = [calls EXCEPT ![s] = Idle]
                /\ prev' = last
                /\ last' = Completed(read, TRUE, TRUE, <<>>)
           ELSE /\ calls' = [calls EXCEPT ![s] =
                               [read EXCEPT !.pc = "write",
                                            !.updated = updatedLogs]]
                /\ UNCHANGED <<last, prev>>
        /\ UNCHANGED <<disk, clock, tz, started, bucketCall>>

\* setItem settles inside saveLogs.  When it resolves the store holds the
\* new string; when it rejects the store is as it was.  Every other call
\* that has read the store and not yet written now holds a stale copy.
SetItemDone(s, rejected) ==
    LET c == calls[s]
        threw == saveLogsThrows(rejected)
    IN  /\ c.pc = "write"
        /\ disk' = IF rejected THEN disk ELSE JSONStringify(c.updated)
        /\ calls' = [x \in Slots |->
                        IF x = s THEN Idle
                        ELSE IF calls[x].pc = "write" /\ ~rejected
                             THEN [calls[x] EXCEPT !.stale = TRUE]
                             ELSE calls[x]]
        /\ prev' = last
        /\ last' = Completed(c, ~rejected, threw,
                             IF threw THEN <<>> ELSE c.updated)
        /\ UNCHANGED <<clock, tz, started, bucketCall>>

Tick ==
    /\ clock + 1 \in Readings
    /\ clock' = clock + 1
    /\ UNCHANGED <<disk, tz, calls, started, last, prev, bucketCall>>

----------------------------------------------------------------------------
(* getLogsByDay *)

\* format(new Date(today.getTime() - i * 24 h), 'yyyy-MM-dd'): the key of
\* pass i of the first loop.
DateKey(z, today, i) == FormatDate(z, today - i * HoursPerDay)

\* The first loop: result[dateKey] = 0 for i = 0 .. days - 1.  No pass when
\* days <= 0.  The keys of result in the order Object.entries lists them,
\* the order they were first assigned in.
InitResult(z, today, days) ==
    LET firstPasses ==
            SelectSeq([n \in 1..days |-> n - 1],
                      LAMBDA i : \A j \in 0..(i - 1) :
                                    DateKey(z, today, j) # DateKey(z, today, i))
    IN  [n \in 1..Len(firstPasses) |-> DateKey(z, today, firstPasses[n])]

\* The second loop: result[dateKey]++ for each log whose key is in result.
CountLogs(z, logs, key) ==
    Cardinality({j \in 1..Len(logs) :
                    FormatDate(z, parseISO(logs[j].timestamp)) = key})

\* .sort((a, b) => a.date.getTime() - b.date.getTime())
SortByDate(bs) == SortSeq(bs, LAMBDA a, b : a.date < b.date)

\* Object.entries(result).map(...).sort(...): one bucket per key of result,
\* its date the Date built from the key.
getLogsByDay(z, today, logs, days) ==
    LET result == InitResult(z, today, days)
    IN  SortByDate([n \in 1..Len(result) |->
                       [date |-> DateFromKey(result[n]),
                        count |-> CountLogs(z, logs, result[n])]])

\* Whether getLogsByDay rejects: it does not look at `days` before its
\* loop, and its catch returns [].
getLogsByDayThrows(days) == FALSE

NoBucketCall == [done |-> FALSE, days |-> 0, now |-> 0, logs |-> <<>>,
                 buckets |-> <<>>, threw |-> FALSE]

\* A screen calls getLogsByDay(days): getLogs reads the store, then the
\* clock is read and the buckets are computed.
CallGetLogsByDay(days, rejected) ==
    LET logs == getLogs(rejected, disk)
    IN  /\ bucketCall' = [done |-> TRUE, days |-> days, now |-> clock,
                          logs |-> logs,
                          buckets |-> getLogsByDay(tz, clock, logs, days),
                          threw |-> getLogsByDayThrows(days)]
        /\ UNCHANGED <<disk, clock, tz, calls, started, last, prev>>

----------------------------------------------------------------------------
(* Preferences: getDailyGoal .. resetWelcome *)

DEFAULT_GOAL == 0
DEFAULT_COST == 0

\* What AsyncStorage holds under a preference key: nothing (getItem gives
\* null), the text of a number (goal.toString(), cost.toString()), or a
\* string.  A cost is counted in the currency's smallest unit.
NoItem == [kind |-> "null", n |-> 0, s |-> ""]

\* Number.prototype.toString
NumberToString(k) == [kind |-> "num", n |-> k, s |-> ""]

StringItem(x) == [kind |-> "str", n |-> 0, s |-> x]

\* `value ? ... : DEFAULT`: null and the empty string are falsy.
Falsy(v) == v.kind = "null" \/ (v.kind = "str" /\ v.s = "")

\* parseInt(value, 10) / parseFloat(value) give NaN on text that does not
\* start with a number.
ParseIsNaN(v) == v.kind # "num"

ParseNumber(v) == v.n

\* `parse(value) || DEFAULT`: NaN and 0 are falsy.
ParseOrDefault(v, default) ==
    IF ParseIsNaN(v) \/ ParseNumber(v) = 0 THEN default ELSE ParseNumber(v)

\* getDailyGoal with `throw error` in its catch.
getterRethrows(rejected) == rejected

\* The preference getters, given how getItem ended: whether they reject.
\* Each has a catch that returns the default.
getterThrows(rejected) == FALSE

\* getDailyGoal, given how getItem ended: what it returns.
getDailyGoal(rejected, value) ==
    IF rejected THEN DEFAULT_GOAL
    ELSE IF Falsy(value) THEN DEFAULT_GOAL
    ELSE ParseOrDefault(value, DEFAULT_GOAL)

getCigaretteCost(rejected, value) ==
    IF rejected THEN DEFAULT_COST
    ELSE IF Falsy(value) THEN DEFAULT_COST
    ELSE ParseOrDefault(value, DEFAULT_COST)

\* getCurrency returns the stored item, null when none or on a failed read.
getCurrency(rejected, value) == IF rejected THEN NoItem ELSE value

\* hasSeenWelcome: value === 'true'
hasSeenWelcome(rejected, value) ==
    IF rejected THEN FALSE ELSE value = StringItem("true")

\* A setter whose catch logs the error and does not rethrow it.
setterSwallows(rejected) == FALSE

\* The preference setters, given how setItem (removeItem) ended: whether
\* they reject.  Each catch rethrows.
setterThrows(rejected) == rejected

Goals == -1..MaxGoal

Costs == 0..MaxCost

Currencies == {"USD", "EUR"}

\* Localization.getLocales()[0]?.currencyCode || 'USD'
defaultCurrency(locale) == IF Falsy(locale) THEN StringItem("USD") ELSE locale

\* storedCurrency || defaultCurrency
costsCurrency(storedCurrency, locale) ==
    IF Falsy(storedCurrency) THEN defaultCurrency(locale) ELSE storedCurrency

\* The currency code the device's locale gives: none, or a code.
Locales == {NoItem} \cup {StringItem(c) : c \in Currencies}

PrefKeys == {"dailyGoal", "cigaretteCost", "currency", "hasSeenWelcome"}

NoPrefCall ==
    [op |-> "none", key |-> "dailyGoal", rejected |-> FALSE, threw |-> FALSE,
     num |-> 0, bool |-> FALSE, item |-> NoItem,
     before |-> [k \in PrefKeys |-> NoItem]]

\* First run: no preference is stored.
PrefInit == [store |-> [k \in PrefKeys |-> NoItem], last |-> NoPrefCall]

\* A getter is called and getItem settles.
PrefGet(op, key, rejected) ==
    LET value == pref.store[key]
    IN  /\ pref' = [pref EXCEPT !.last =
                      [op |-> op, key |-> key, rejected |-> rejected,
                       threw |-> getterThrows(rejected),
                       num |-> IF op = "getDailyGoal"
                               THEN getDailyGoal(rejected, value)
                               ELSE IF op = "getCigaretteCost"
                               THEN getCigaretteCost(rejected, value)
                               ELSE 0,
                       bool |-> op = "hasSeenWelcome"
                                /\ hasSeenWelcome(rejected, value),
                       item |-> IF op = "getCurrency"
                                THEN getCurrency(rejected, value)
                                ELSE NoItem,
                       before |-> pref.store]]
        /\ UNCHANGED <<disk, clock, tz, calls, started, last, prev,
                       bucketCall, home, view,
                       settings, nav>>

CallGetDailyGoal(rejected) == PrefGet("getDailyGoal", "dailyGoal", rejected)

CallGetCigaretteCost(rejected) ==
    PrefGet("getCigaretteCost", "cigaretteCost", rejected)

CallGetCurrency(rejected) == PrefGet("getCurrency", "currency", rejected)

CallHasSeenWelcome(rejected) ==
    PrefGet("hasSeenWelcome", "hasSeenWelcome", rejected)

\* A setter is called and setItem (removeItem) settles: the key holds the
\* new item when it resolved and what it held when it rejected.
PrefSet(op, key, item, rejected) ==
    /\ pref' = [store |-> IF rejected THEN pref.store
                          ELSE [pref.store EXCEPT ![key] = item],
                last |-> [NoPrefCall EXCEPT !.op = op, !.key = key,
                                            !.rejected = rejected,
                                            !.threw = setterThrows(rejected),
                                            !.item = item,
                                            !.before = pref.store]]
    /\ UNCHANGED <<disk, clock, tz, calls, started, last, prev,
                   bucketCall, home, view,
                   settings, nav>>

CallSetDailyGoal(goal, rejected) ==
    PrefSet("setDailyGoal", "dailyGoal", NumberToString(goal), rejected)

CallSetCigaretteCost(cost, rejected) ==
    PrefSet("setCigaretteCost", "cigaretteCost", NumberToString(cost), rejected)

CallSetCurrency(currency, rejected) ==
    PrefSet("setCurrency", "currency", StringItem(currency), rejected)

CallSetHasSeenWelcome(rejected) ==
    PrefSet("setHasSeenWelcome", "hasSeenWelcome", StringItem("true"), rejected)

\* AsyncStorage.removeItem(HAS_SEEN_WELCOME_KEY)
CallResetWelcome(rejected) ==
    PrefSet("resetWelcome", "hasSeenWelcome", NoItem, rejected)

----------------------------------------------------------------------------
(* The settings screens: app/(tabs)/settings.tsx and app/settings.tsx *)

\* What can be in a text field: the text of one of Goals, nothing, or text
\* that is no number.
Texts == {NumberToString(g) : g \in Goals} \cup {StringItem(""), StringItem("ab")}

\* text.replace(/[^0-9]/g, ''): the digits of the text.
DigitsOf(text) ==
    IF text.kind = "num"
    THEN NumberToString(IF text.n < 0 THEN -text.n ELSE text.n)
    ELSE StringItem("")

\* parseInt(text, 10) || 0
ParseIntOrZero(text) == ParseOrDefault(text, 0)

\* Math.max(0, current + delta)
NextGoal(current, delta) == IF current + delta < 0 THEN 0 ELSE current + delta

\* useState('10'), the goal field of app/settings.tsx before it is loaded.
InitialGoalText == 10

NoSave == [op |-> "none", failed |-> FALSE]

\* useState('0'), useState(true)
SettingsInit ==
    [inputValue |-> NumberToString(0), isLoading |-> TRUE,
     dailyGoal |-> NumberToString(InitialGoalText), alert |-> "none",
     last |-> NoSave, currency |-> NoItem, locale |-> NoItem]

\* The write of a setter or of a setItem, given how it ended.
StoreAfter(key, item, rejected) ==
    IF rejected THEN pref.store ELSE [pref.store EXCEPT ![key] = item]

\* adjustGoal: setInputValue(String(next)) comes before the save and nothing
\* puts the old text back when the save throws.
inputAfterAdjust(inputValue, next, threw) == NumberToString(next)

\* loadGoal of app/(tabs)/settings.tsx
LoadGoal(rejected) ==
    /\ settings' = [settings EXCEPT
                       !.inputValue = NumberToString(
                           getDailyGoal(rejected, pref.store["dailyGoal"])),
                       !.isLoading = FALSE,
                       !.last = NoSave]
    /\ UNCHANGED <<disk, clock, tz, calls, started, last, prev, bucketCall,
                   home, pref, view, nav>>

\* onChangeText of the goal field of app/(tabs)/settings.tsx; the field is
\* rendered once isLoading is false.
ChangeGoalText(text) ==
    /\ ~settings.isLoading
    /\ settings' = [settings EXCEPT !.inputValue = DigitsOf(text),
                                    !.last = NoSave]
    /\ UNCHANGED <<disk, clock, tz, calls, started, last, prev, bucketCall,
                   home, pref, view, nav>>

\* A tap on - or +: adjustGoal(delta), the write of setDailyGoal free to
\* fail.  Goals above MaxGoal are left out.
AdjustGoal(delta, rejected) ==
    LET current == ParseIntOrZero(DigitsOf(settings.inputValue))
        next == NextGoal(current, delta)
        threw == setterThrows(rejected)
    IN  /\ ~settings.isLoading
        /\ next <= MaxGoal
        /\ pref' = [pref EXCEPT !.store =
                       StoreAfter("dailyGoal", NumberToString(next), rejected)]
        /\ settings' = [settings EXCEPT
                           !.inputValue =
                               inputAfterAdjust(settings.inputValue, next, threw),
                           !.alert = IF threw THEN "Unable to save your goal"
                                     ELSE settings.alert,
                           !.last = [op |-> "adjustGoal", failed |-> threw]]
        /\ UNCHANGED <<disk, clock, tz, calls, started, last, prev,
                       bucketCall, home, view,
                       nav>>

\* onBlur of the goal field.
BlurGoal(rejected) ==
    LET parsedGoal == ParseIntOrZero(settings.inputValue)
        threw == setterThrows(rejected)
    IN  /\ ~settings.isLoading
        /\ pref' = [pref EXCEPT !.store =
                       StoreAfter("dailyGoal", NumberToString(parsedGoal),
                                  rejected)]
        /\ settings' = [settings EXCEPT
                           !.alert = IF threw THEN "Unable to save your goal"
                                     ELSE settings.alert,
                           !.last = [op |-> "onBlur", failed |-> threw]]
        /\ UNCHANGED <<disk, clock, tz, calls, started, last, prev,
                       bucketCall, home, view,
                       nav>>

\* The settings screen with the cost field (unnamed/part_000) is rendered:
\* const currency = Localization.getLocales()[0]?.currencyCode || 'USD'
RenderCostField(locale) ==
    /\ settings' = [settings EXCEPT !.currency = defaultCurrency(locale),
                                    !.locale = locale]
    /\ UNCHANGED <<disk, clock, tz, calls, started, last, prev, bucketCall,
                   home, pref, view, nav>>

\* loadSettings of app/settings.tsx: `if (savedGoal) setDailyGoal(savedGoal)`;
\* a failed read is logged.
LoadSettings(rejected) ==
    LET savedGoal == pref.store["dailyGoal"]
    IN  /\ settings' = [settings EXCEPT
                           !.dailyGoal = IF rejected \/ Falsy(savedGoal)
                                         THEN settings.dailyGoal ELSE savedGoal,
                           !.last = NoSave]
        /\ UNCHANGED <<disk, clock, tz, calls, started, last, prev,
                       bucketCall, home, pref, view,
                       nav>>

\* onChangeText={setDailyGoal} of app/settings.tsx: the text as typed.
ChangeSettingsGoal(text) ==
    /\ settings' = [settings EXCEPT !.dailyGoal = text, !.last = NoSave]
    /\ UNCHANGED <<disk, clock, tz, calls, started, last, prev, bucketCall,
                   home, pref, view, nav>>

\* saveSettings of app/settings.tsx: AsyncStorage.setItem(GOAL_KEY,
\* dailyGoal), the text of the field as it is; a failed write is logged.
SaveSettings(rejected) ==
    /\ pref' = [pref EXCEPT !.store =
                   StoreAfter("dailyGoal", settings.dailyGoal, rejected)]
    /\ settings' = [settings EXCEPT
                       !.last = [op |-> "saveSettings", failed |-> rejected]]
    /\ UNCHANGED <<disk, clock, tz, calls, started, last, prev, bucketCall,
                   home, view, nav>>

----------------------------------------------------------------------------
(* Routing: RootLayout / Index (checkWelcome) and welcome.tsx *)

\* const FORCE_WELCOME = true
FORCE_WELCOME == TRUE

\* The app starts on the index route, isChecking true.
NavInit ==
    [route |-> "index", isChecking |-> TRUE,
     last |-> [op |-> "none", seen |-> FALSE, threw |-> FALSE]]

\* checkWelcome: the route it replaces the index route with, `seen` being
\* what hasSeenWelcome returns.
checkWelcome(seen) ==
    IF FORCE_WELCOME THEN "welcome"
    ELSE IF ~seen THEN "welcome" ELSE "tabs"

\* handleGetStarted with router.replace only after the await, in the try.
routeAfterSaved(threw) == IF threw THEN "welcome" ELSE "tabs"

\* handleGetStarted: router.replace('/(tabs)') in the try and in the catch.
handleGetStarted(threw) == "tabs"

\* The app is started: checkWelcome runs once the Stack is mounted, the
\* read of hasSeenWelcome free to fail.
CheckWelcome(rejected) ==
    LET seen == hasSeenWelcome(rejected, pref.store["hasSeenWelcome"])
    IN  /\ nav' = [route |-> checkWelcome(seen), isChecking |-> FALSE,
                   last |-> [op |-> "checkWelcome", seen |-> seen,
                             threw |-> FALSE]]
        /\ UNCHANGED <<disk, clock, tz, calls, started, last, prev,
                       bucketCall, home, pref, view, settings>>

\* Get Started is pressed on the welcome screen, the write of
\* setHasSeenWelcome free to fail.
GetStarted(rejected) ==
    LET threw == setterThrows(rejected)
    IN  /\ nav.route = "welcome"
        /\ pref' = [pref EXCEPT !.store =
                       StoreAfter("hasSeenWelcome", StringItem("true"), rejected)]
        /\ nav' = [nav EXCEPT !.route = handleGetStarted(threw),
                              !.last = [op |-> "handleGetStarted",
                                        seen |-> FALSE, threw |-> threw]]
        /\ UNCHANGED <<disk, clock, tz, calls, started, last, prev,
                       bucketCall, home, view, settings>>

----------------------------------------------------------------------------
(* The trends and the costs screens: loadData *)

\* The first days of the months around 1970-01-01 (day 0): December 1969,
\* January to April 1970.
MonthStarts == {-31, 0, 31, 59, 90}

\* startOfMonth, on day numbers.
StartOfMonth(d) ==
    CHOOSE m \in MonthStarts : m <= d /\ \A n \in MonthStarts : n <= d => n <= m

\* startOfWeek, on day numbers: weeks start on Sunday, and day 0 was a
\* Thursday.
StartOfWeek(d) == d - ((d + 4) % 7)

\* isThisMonth(date) when Date.now() is `now`: the same local month.
isThisMonth(z, now, date) ==
    StartOfMonth(FormatDate(z, date)) = StartOfMonth(FormatDate(z, now))

\* isThisWeek(date) when Date.now() is `now`: the same local week.
isThisWeek(z, now, date) ==
    StartOfWeek(FormatDate(z, date)) = StartOfWeek(FormatDate(z, now))

\* startOfDay of any instant of the local day k: its local midnight.
startOfDay(z, k) ==
    LET t == k * HoursPerDay - z.std
    IN  IF t - z.shift >= z.at THEN t - z.shift ELSE t

\* eachDayOfInterval({start, end}): the local midnights of the local days
\* first .. final.
eachDayOfInterval(z, first, final) ==
    [i \in 1..(final - first + 1) |-> startOfDay(z, first + i - 1)]

\* Date.prototype.toDateString: the local calendar date.
toDateString(z, t) == FormatDate(z, t)

\* logsByDay.find(d => d.date.toDateString() === day.toDateString()), and
\* `existing ? existing.count : 0`.
ExistingCount(z, logsByDay, day) ==
    LET found == {i \in 1..Len(logsByDay) :
                     toDateString(z, logsByDay[i].date) = toDateString(z, day)}
    IN  IF found = {} THEN 0
        ELSE logsByDay[CHOOSE i \in found : \A j \in found : i <= j].count

\* allDays.map(day => ({date: day, count, amount: count * cost})); the
\* trends screen has no amount (cost 0 here).
spendingData(z, logsByDay, allDays, cost) ==
    [i \in 1..Len(allDays) |->
        LET count == ExistingCount(z, logsByDay, allDays[i])
        IN  [date |-> allDays[i], count |-> count, amount |-> count * cost]]

\* The days of the two ranges: timeRange === 'week' ? 7 : 30
RangeDays(timeRange) == IF timeRange = "week" THEN 7 ELSE 30

\* addDays(today, 5), the spacing of the month chart.
SpacingDays == 5

TimeRanges == {"week", "month"}

\* filledData.filter(d => isThisWeek(d.date)) or isThisMonth(d.date).
periodData(z, now, timeRange, filledData) ==
    IF timeRange = "week"
    THEN SelectSeq(filledData, LAMBDA d : isThisWeek(z, now, d.date))
    ELSE SelectSeq(filledData, LAMBDA d : isThisMonth(z, now, d.date))

RECURSIVE SumAmounts(_)
\* reduce((sum, day) => sum + day.amount, 0)
SumAmounts(ds) ==
    IF ds = <<>> THEN 0 ELSE Head(ds).amount + SumAmounts(Tail(ds))

RECURSIVE SumDayCounts(_)
\* reduce((sum, day) => sum + day.count, 0)
SumDayCounts(ds) ==
    IF ds = <<>> THEN 0 ELSE Head(ds).count + SumDayCounts(Tail(ds))

RECURSIVE Counts(_)
\* filledData.map(item => item.count)
Counts(ds) == IF ds = <<>> THEN <<>> ELSE <<Head(ds).count>> \o Counts(Tail(ds))

RECURSIVE Amounts(_)
\* spendingData.map(item => ({value: item.amount, ...}))
Amounts(ds) == IF ds = <<>> THEN <<>> ELSE <<Head(ds).amount>> \o Amounts(Tail(ds))

\* A JavaScript number that came out of a division: the fraction num / den,
\* or NaN.
Fraction(num, den) == [nan |-> FALSE, num |-> num, den |-> den]

NaN == [nan |-> TRUE, num |-> 0, den |-> 1]

\* a / b on non-negative numbers, a being 0 when b is: 0 / 0 is NaN.
Divide(a, b) == IF b = 0 THEN NaN ELSE Fraction(a, b)

\* (a / b).toFixed(1), then Number(...): the nearest multiple of 0.1.  When
\* a / b lies halfway between two of them, the binary value of the quotient
\* decides: 1/4 and 3/4 are exact and go up, a quotient with another
\* denominator is a little off its decimal value, to either side.
toFixed1(a, b) ==
    LET down == (10 * a) \div b
        rest == 2 * ((10 * a) % b)
    IN  IF rest < b THEN {Fraction(down, 10)}
        ELSE IF rest > b \/ (4 * a) % b = 0 THEN {Fraction(down + 1, 10)}
        ELSE {Fraction(down, 10), Fraction(down + 1, 10)}

\* The average of the trends screen left unrounded.
trendsAverageExact(total, length) ==
    IF length > 0 THEN {Divide(total, length)} ELSE {Fraction(0, 1)}

\* The average of the trends screen without its test of periodData.length.
trendsAverageUnguarded(total, length) ==
    IF length = 0 THEN {NaN} ELSE toFixed1(total, length)

\* periodData.length > 0 ? (total / periodData.length).toFixed(1) : 0
trendsAverage(total, length) ==
    IF length > 0 THEN toFixed1(total, length) ELSE {Fraction(0, 1)}

\* periodData.length > 0 ? totalSpent / periodData.length : 0
costsAverage(totalSpent, length) ==
    IF length > 0 THEN Divide(totalSpent, length) ELSE Fraction(0, 1)

\* A loadData whose `finally` is left out: isLoading stays what the body
\* left it.
withoutFinally(isLoading) == isLoading

\* finally { setIsLoading(false) }: runs after the try and after the catch,
\* and after the early return of the costs screen.
afterFinally(isLoading) == FALSE

NoView ==
    [screen |-> "none", timeRange |-> "week", now |-> 0, cost |-> 0,
     logs |-> <<>>, data |-> <<>>, period |-> <<>>, chart |-> <<>>,
     total |-> 0, totalSpent |-> 0, dailyAverage |-> Fraction(0, 1),
     currency |-> StringItem("USD"), locale |-> NoItem,
     startedBy |-> "none", isLoading |-> TRUE, pending |-> "none"]

\* loadData of the trends screen.  `spacing` is 0 in app/(tabs)/trends.tsx;
\* the TrendsScreen of app/(tabs)/settings.tsx ends the days of the month
\* range SpacingDays after today.  `elapsed` is the time that passes between
\* `new Date()` and the Date.now() of isThisWeek / isThisMonth.  One visit
\* of a screen is followed: loadData on the same store, clock, zone and
\* preferences computes nothing new.
TrendsLoaded(screen, timeRange, spacing, rejected, elapsed, startedBy) ==
    LET days == RangeDays(timeRange)
        logs == getLogs(rejected, disk)
        today == FormatDate(tz, clock)
        allDays == eachDayOfInterval(tz, today - (days - 1),
                       IF timeRange = "month" THEN today + spacing ELSE today)
    IN  \E logsByDay \in {getLogsByDay(tz, clock, logs, days)} :
        \E filledData \in {spendingData(tz, logsByDay, allDays, 0)} :
        \E period \in {periodData(tz, clock + elapsed, timeRange, filledData)} :
        \E total \in {SumDayCounts(period)} :
        \E dailyAverage \in trendsAverage(total, Len(period)) :
            view' = [screen |-> screen, timeRange |-> timeRange,
                     now |-> clock, cost |-> 0, logs |-> logs,
                     data |-> filledData, period |-> period,
                     chart |-> Counts(filledData),
                     total |-> total, totalSpent |-> 0,
                     dailyAverage |-> dailyAverage,
                     currency |-> NoView.currency,
                     locale |-> NoView.locale,
                     startedBy |-> startedBy,
                     isLoading |-> afterFinally(TRUE),
                     pending |-> "none"]

\* loadData run by the effect of the mount (or of the focus).
TrendsLoadData(screen, timeRange, spacing, rejected, elapsed) ==
    /\ view.screen = "none"
    /\ TrendsLoaded(screen, timeRange, spacing, rejected, elapsed, "mount")
    /\ UNCHANGED <<disk, clock, tz, calls, started, last, prev,
                   bucketCall, home, pref,
                   settings, nav>>

\* app/(tabs)/trends.tsx
LoadTrends(timeRange, rejected, elapsed) ==
    TrendsLoadData("trends", timeRange, 0, rejected, elapsed)

\* The TrendsScreen of app/(tabs)/settings.tsx and unnamed/part_001.
LoadTrendsSpaced(timeRange, rejected, elapsed) ==
    TrendsLoadData("trendsSpaced", timeRange, SpacingDays, rejected, elapsed)

\* loadData of the costs screen, the three reads free to fail; `locale` is
\* the currency code of the device's locale.
CostsLoaded(timeRange, rejectedCost, rejectedCurrency, rejected, elapsed, locale) ==
    LET cost == getCigaretteCost(rejectedCost, pref.store["cigaretteCost"])
        currency == costsCurrency(
                        getCurrency(rejectedCurrency, pref.store["currency"]),
                        locale)
        days == RangeDays(timeRange)
        logs == getLogs(rejected, disk)
        today == FormatDate(tz, clock)
        allDays == eachDayOfInterval(tz, today - (days - 1), today)
    IN  IF cost = 0
        THEN view' = [NoView EXCEPT !.screen = "costs",
                                    !.timeRange = timeRange, !.now = clock,
                                    !.currency = currency,
                                    !.locale = locale,
                                    !.startedBy = "mount",
                                    !.isLoading = afterFinally(FALSE)]
        ELSE \E logsByDay \in {getLogsByDay(tz, clock, logs, days)} :
             \E spending \in {spendingData(tz, logsByDay, allDays, cost)} :
             \E period \in {periodData(tz, clock + elapsed, timeRange, spending)} :
             \E totalSpent \in {SumAmounts(period)} :
                 view' = [screen |-> "costs", timeRange |-> timeRange,
                          now |-> clock, cost |-> cost, logs |-> logs,
                          data |-> spending, period |-> period,
                          chart |-> Amounts(spending),
                          total |-> SumDayCounts(period),
                          totalSpent |-> totalSpent,
                          dailyAverage |->
                              costsAverage(totalSpent, Len(period)),
                          currency |-> currency, locale |-> locale,
                          startedBy |-> "mount",
                          isLoading |-> afterFinally(TRUE),
                          pending |-> "none"]

\* loadData run by the effect of the focus.
LoadCosts(timeRange, rejectedCost, rejectedCurrency, rejected, elapsed, locale) ==
    /\ view.screen = "none"
    /\ CostsLoaded(timeRange, rejectedCost, rejectedCurrency, rejected,
                   elapsed, locale)
    /\ UNCHANGED <<disk, clock, tz, calls, started, last, prev,
                   bucketCall, home, pref, settings, nav>>

----------------------------------------------------------------------------
(* The home screen: app/(tabs)/index.tsx *)

\* getTimeOfDay with the upper limits inclusive (hour <= 12, <= 17, <= 21).
getTimeOfDayInclusive(hour) ==
    IF hour >= 5 /\ hour <= 12 THEN "morning"
    ELSE IF hour > 12 /\ hour <= 17 THEN "afternoon"
    ELSE IF hour > 17 /\ hour <= 21 THEN "evening"
    ELSE "night"

\* getTimeOfDay, given date.getHours().
getTimeOfDay(hour) ==
    IF hour >= 5 /\ hour < 12 THEN "morning"
    ELSE IF hour >= 12 /\ hour < 17 THEN "afternoon"
    ELSE IF hour >= 17 /\ hour < 21 THEN "evening"
    ELSE "night"

TimesOfDay == {"morning", "afternoon", "evening", "night"}

\* updateTimeStats: newTimeStats[getTimeOfDay(new Date(log.timestamp))]++
\* for each log.
updateTimeStats(z, logs) ==
    [p \in TimesOfDay |->
        Cardinality({j \in 1..Len(logs) :
            getTimeOfDay(GetHours(z, parseISO(logs[j].timestamp))) = p})]

\* useState(0), useState([]), useState({morning: 0, ...}); no alert shown;
\* closure[s] is the todayLogs the handler awaiting store call s was created
\* with (the render its tap happened in).
HomeInit ==
    [count |-> 0, todayLogs |-> <<>>, timeStats |-> updateTimeStats(UTC, <<>>),
     isLoading |-> TRUE, dailyGoal |-> 0,
     alert |-> "none", closure |-> [s \in Slots |-> <<>>],
     pending |-> FALSE]

\* isSameDay(a, b): the same local calendar day.
isSameDay(z, a, b) == FormatDate(z, a) = FormatDate(z, b)

\* logs.filter(log => ...)
RECURSIVE FilterSameDay(_, _, _)
FilterSameDay(z, logs, date) ==
    IF logs = <<>> THEN <<>>
    ELSE (IF isSameDay(z, parseISO(Head(logs).timestamp), date)
          THEN <<Head(logs)>> ELSE <<>>) \o FilterSameDay(z, Tail(logs), date)

\* getLogsForDate, given how the read of getLogs ended.
getLogsForDate(z, rejected, value, date) ==
    FilterSameDay(z, getLogs(rejected, value), date)

\* setTodayLogs(updatedLogs); setCount(updatedLogs.length);
\* updateTimeStats(updatedLogs)
setTodayState(h, z, updatedLogs) ==
    [h EXCEPT !.todayLogs = updatedLogs, !.count = Len(updatedLogs),
              !.timeStats = updateTimeStats(z, updatedLogs)]

\* addCigarette with the state update outside the try: it runs whether
\* addLog threw or not.
addCigaretteAlways(h, z, captured, newLog, threw) ==
    setTodayState(h, z, Append(captured, newLog))

\* addCigarette from the return of `await addLog(newLog)`: the state update
\* when it resolved, the alert when it threw.
addCigaretteDone(h, z, captured, newLog, threw) ==
    IF threw THEN [h EXCEPT !.alert = "Failed to add cigarette log"]
    ELSE setTodayState(h, z, Append(captured, newLog))

\* removeCigarette from the return of `await removeLog(id)`.
removeCigaretteDone(h, z, captured, id, threw) ==
    IF threw THEN [h EXCEPT !.alert = "Failed to remove cigarette log"]
    ELSE setTodayState(h, z, FilterOut(captured, id))

\* The screen gets the focus: loadTodayData reads today's entries and the
\* goal (neither read can make it throw) and sets the state.
LoadTodayData(rejectedLogs, rejectedGoal) ==
    /\ home' = [setTodayState(home, tz,
                    getLogsForDate(tz, rejectedLogs, disk, clock))
                 EXCEPT !.dailyGoal =
                            getDailyGoal(rejectedGoal, pref.store["dailyGoal"]),
                        !.isLoading = afterFinally(TRUE),
                        !.pending = FALSE]
    /\ UNCHANGED <<disk, clock, tz, calls, started, last, prev, bucketCall,
                   pref, view, settings, nav>>

\* A tap on +: addCigarette builds newLog from the clock and awaits addLog.
\* The buttons are rendered once isLoading is false.
TapAdd(s) ==
    /\ ~home.isLoading
    /\ CallAddLogGiven(s)
    /\ home' = [home EXCEPT !.closure[s] = home.todayLogs]
    /\ UNCHANGED <<pref, view, settings, nav>>

\* A tap on -: the button is disabled while count is 0, and onPress calls
\* removeCigarette with the id of the last entry of todayLogs.
TapRemove(s) ==
    /\ ~home.isLoading
    /\ home.count > 0
    /\ Call(s, "removeLog", FALSE, NoLog, home.todayLogs[Len(home.todayLogs)].id)
    /\ home' = [home EXCEPT !.closure[s] = home.todayLogs]
    /\ UNCHANGED <<pref, view, settings, nav>>

\* The store call of a handler settles and the handler runs on.
HomeCallDone(s, rejected) ==
    /\ SetItemDone(s, rejected)
    /\ home' =
         LET c == calls[s]
             done == IF c.op = "addLog"
                     THEN addCigaretteDone(home, tz, home.closure[s], c.log,
                                           last'.threw)
                     ELSE removeCigaretteDone(home, tz, home.closure[s], c.id,
                                              last'.threw)
         IN  [done EXCEPT !.closure[s] = <<>>]
    /\ UNCHANGED <<pref, view, settings, nav>>

\* First run (nothing stored), or a stored value that does not parse.
Init ==
    /\ disk \in {Null, Garbage}
    /\ clock = 0
    /\ tz = UTC
    /\ calls = [s \in Slots |-> Idle]
    /\ started = 0
    /\ last = NoCall
    /\ prev = NoCall
    /\ bucketCall = NoBucketCall
    /\ home = HomeInit
    /\ pref = PrefInit
    /\ view = NoView
    /\ settings = SettingsInit
    /\ nav = NavInit

Next ==
    \/ \E s \in Slots : CallAddLogGiven(s) /\ UNCHANGED screenVars
    \/ \E s \in Slots : CallAddLog(s) /\ UNCHANGED screenVars
    \/ \E s \in Slots : CallRemoveLog(s) /\ UNCHANGED screenVars
    \/ \E rejected \in BOOLEAN : CallGetLogs(rejected) /\ UNCHANGED screenVars
    \/ \E s \in Slots, rejected \in BOOLEAN :
          GetItemDone(s, rejected) /\ UNCHANGED screenVars
    \/ \E s \in Slots, rejected \in BOOLEAN :
          SetItemDone(s, rejected) /\ UNCHANGED screenVars
    \/ Tick /\ UNCHANGED screenVars

Spec == Init /\ [][Next]_vars

----------------------------------------------------------------------------
(* The bucketing on its own: any zone, any instant, any stored log. *)

RECURSIVE SeqsUpTo(_, _)
SeqsUpTo(S, n) ==
    IF n = 0 THEN {<<>>}
    ELSE LET shorter == SeqsUpTo(S, n - 1)
         IN  shorter \cup {Append(q, x) : q \in shorter, x \in S}

InitBuckets ==
    /\ disk \in {JSONStringify(q) : q \in SeqsUpTo({NewLog(t) : t \in Stamps}, MaxLogs)}
    /\ clock \in Nows
    /\ tz \in Zones
    /\ calls = [s \in Slots |-> Idle]
    /\ started = 0
    /\ last = NoCall
    /\ prev = NoCall
    /\ bucketCall = NoBucketCall
    /\ home = HomeInit
    /\ pref = PrefInit
    /\ view = NoView
    /\ settings = SettingsInit
    /\ nav = NavInit

NextBuckets ==
    \E days \in -1..MaxDays, rejected \in BOOLEAN :
        CallGetLogsByDay(days, rejected) /\ UNCHANGED screenVars

SpecBuckets == InitBuckets /\ [][NextBuckets]_vars

----------------------------------------------------------------------------
(* The home screen over the store: taps on + and -, each awaiting its store
   call; a second tap can come before the first one's call has settled. *)

NextHome ==
    \/ \E rejectedLogs, rejectedGoal \in BOOLEAN :
          LoadTodayData(rejectedLogs, rejectedGoal)
    \/ \E s \in Slots : TapAdd(s)
    \/ \E s \in Slots : TapRemove(s)
    \/ \E s \in Slots, rejected \in BOOLEAN :
          GetItemDone(s, rejected) /\ UNCHANGED screenVars
    \/ \E s \in Slots, rejected \in BOOLEAN : HomeCallDone(s, rejected)
    \/ Tick /\ UNCHANGED screenVars

SpecHome == Init /\ [][NextHome]_vars

----------------------------------------------------------------------------
(* The preferences on their own: any sequence of getter and setter calls,
   each read and write free to fail. *)

NextPrefs ==
    \/ \E rejected \in BOOLEAN : CallGetDailyGoal(rejected)
    \/ \E rejected \in BOOLEAN : CallGetCigaretteCost(rejected)
    \/ \E rejected \in BOOLEAN : CallGetCurrency(rejected)
    \/ \E rejected \in BOOLEAN : CallHasSeenWelcome(rejected)
    \/ \E goal \in Goals, rejected \in BOOLEAN : CallSetDailyGoal(goal, rejected)
    \/ \E cost \in Costs, rejected \in BOOLEAN : CallSetCigaretteCost(cost, rejected)
    \/ \E c \in Currencies, rejected \in BOOLEAN : CallSetCurrency(c, rejected)
    \/ \E rejected \in BOOLEAN : CallSetHasSeenWelcome(rejected)
    \/ \E rejected \in BOOLEAN : CallResetWelcome(rejected)

SpecPrefs == Init /\ [][NextPrefs]_vars

----------------------------------------------------------------------------
(* The home screen opened on a store that holds entries of every part of
   the day, in any of the zones. *)

\* The instants of the stored entries: the hours on both sides of each
\* limit of getTimeOfDay, in UTC, of the day after FirstDay.
BoundaryHours == {4, 5, 11, 12, 16, 17, 20, 21}

HourStamps == {(FirstDay + 1) * HoursPerDay + h : h \in BoundaryHours}

\* When the screen is opened: at noon and late in the evening (UTC).
OpenedAt == {(FirstDay + 1) * HoursPerDay + 12, (FirstDay + 1) * HoursPerDay + 22}

InitToday ==
    /\ disk \in {JSONStringify(q) :
                    q \in SeqsUpTo({NewLog(t) : t \in HourStamps}, MaxLogs)}
    /\ clock \in OpenedAt
    /\ tz \in Zones
    /\ calls = [s \in Slots |-> Idle]
    /\ started = 0
    /\ last = NoCall
    /\ prev = NoCall
    /\ bucketCall = NoBucketCall
    /\ home = HomeInit
    /\ pref = PrefInit
    /\ view = NoView
    /\ settings = SettingsInit
    /\ nav = NavInit

NextToday ==
    \E rejectedLogs, rejectedGoal \in BOOLEAN :
        LoadTodayData(rejectedLogs, rejectedGoal)

SpecToday == InitToday /\ [][NextToday]_vars

----------------------------------------------------------------------------
(* The trends or the costs screen opened at the end of January 1970 and in
   February, on a store that holds entries of both months. *)

\* When the screens are opened: on Saturday 31 January at noon and in its
\* last hour, and on Monday 2 February (UTC).
TrendNows == {30 * HoursPerDay + 12, 30 * HoursPerDay + 23,
              32 * HoursPerDay + 12}

\* The instants of the stored entries: 1 January, 31 January and the small
\* hours of 1 February (UTC).
TrendStamps == {12, 30 * HoursPerDay + 12, 31 * HoursPerDay + 2}

\* The zones whose clock does not shift in these weeks.
TrendZones == {z \in Zones : z.shift = 0}

\* The collections addLog can have built from these entries: it appends,
\* so they are in the order of their instants.
TrendLogs ==
    {q \in SeqsUpTo({NewLog(t) : t \in TrendStamps}, MaxLogs) :
        \A i \in 1..(Len(q) - 1) :
            parseISO(q[i].timestamp) <= parseISO(q[i + 1].timestamp)}

\* The cost of a cigarette is not saved yet, or saved as any of Costs.
InitTrends ==
    /\ disk \in {JSONStringify(q) : q \in TrendLogs}
    /\ clock \in TrendNows
    /\ tz \in TrendZones
    /\ calls = [s \in Slots |-> Idle]
    /\ started = 0
    /\ last = NoCall
    /\ prev = NoCall
    /\ bucketCall = NoBucketCall
    /\ home = HomeInit
    /\ pref \in {[PrefInit EXCEPT !.store["cigaretteCost"] = item] :
                    item \in {NoItem} \cup {NumberToString(c) : c \in Costs}}
    /\ view = NoView
    /\ settings = SettingsInit
    /\ nav = NavInit

NextTrends ==
    \/ \E timeRange \in TimeRanges, rejected \in BOOLEAN, elapsed \in Readings :
          LoadTrends(timeRange, rejected, elapsed)
    \/ \E timeRange \in TimeRanges, rejected \in BOOLEAN, elapsed \in Readings :
          LoadTrendsSpaced(timeRange, rejected, elapsed)
    \/ \E timeRange \in TimeRanges, rejectedCost, rejected \in BOOLEAN,
          elapsed \in Readings :
          LoadCosts(timeRange, rejectedCost, FALSE, rejected, elapsed, NoItem)

SpecTrends == InitTrends /\ [][NextTrends]_vars

----------------------------------------------------------------------------
(* The settings screens, every read and write free to fail. *)

NextSettings ==
    \/ \E rejected \in BOOLEAN : LoadGoal(rejected)
    \/ \E text \in Texts : ChangeGoalText(text)
    \/ \E delta \in {-1, 1}, rejected \in BOOLEAN : AdjustGoal(delta, rejected)
    \/ \E rejected \in BOOLEAN : BlurGoal(rejected)
    \/ \E rejected \in BOOLEAN : LoadSettings(rejected)
    \/ \E text \in Texts : ChangeSettingsGoal(text)
    \/ \E rejected \in BOOLEAN : SaveSettings(rejected)

SpecSettings == Init /\ [][NextSettings]_vars

----------------------------------------------------------------------------
(* The trends screen left open on a store nobody writes to: its 2-second
   timer ticks any number of times. *)

\* isToday(new Date(log.timestamp)) over the logs the tick read.
todayLogsOf(z, now, logs) == FilterSameDay(z, logs, now)

\* One tick of the timer once a load has completed: getLogs (a failed read
\* gives []), today's entries are counted and compared with stats.total,
\* and loadData is called when they differ.
PollTrends(rejected, rejectedLoad, elapsed) ==
    /\ view.screen = "trends"
    /\ view.pending = "none"
    /\ IF Len(todayLogsOf(tz, clock, getLogs(rejected, disk))) # view.total
       THEN TrendsLoaded("trends", view.timeRange, 0, rejectedLoad, elapsed,
                         "poll")
       ELSE UNCHANGED view
    /\ UNCHANGED <<disk, clock, tz, calls, started, last, prev,
                   bucketCall, home, pref, settings, nav>>

InitPoll ==
    /\ disk \in {JSONStringify(q) : q \in TrendLogs}
    /\ clock \in TrendNows
    /\ tz \in TrendZones
    /\ calls = [s \in Slots |-> Idle]
    /\ started = 0
    /\ last = NoCall
    /\ prev = NoCall
    /\ bucketCall = NoBucketCall
    /\ home = HomeInit
    /\ pref = PrefInit
    /\ view = NoView
    /\ settings = SettingsInit
    /\ nav = NavInit

NextPoll ==
    \/ \E timeRange \in TimeRanges, rejected \in BOOLEAN, elapsed \in Readings :
          LoadTrends(timeRange, rejected, elapsed)
    \/ \E rejected, rejectedLoad \in BOOLEAN, elapsed \in Readings :
          PollTrends(rejected, rejectedLoad, elapsed)

SpecPoll == InitPoll /\ [][NextPoll]_vars

----------------------------------------------------------------------------
(* Loading: each screen's load is followed from its start to its end.  The
   home screen loads on every focus, the trends or the costs screen on mount
   and on every focus, with the range it starts with. *)

\* loadTodayData up to its await: setIsLoading(true), the two reads
\* requested.
BeginLoadToday ==
    /\ ~home.pending
    /\ home' = [home EXCEPT !.isLoading = TRUE, !.pending = TRUE]
    /\ UNCHANGED <<disk, clock, tz, calls, started, last, prev, bucketCall,
                   pref, view, settings, nav>>

\* The reads of loadTodayData settle and it runs to its end.
EndLoadToday(rejectedLogs, rejectedGoal) ==
    /\ home.pending
    /\ LoadTodayData(rejectedLogs, rejectedGoal)

\* loadData of the trends or of the costs screen up to its first await:
\* setIsLoading(true), the read requested.
BeginLoadData(screen) ==
    /\ view.pending = "none"
    /\ view.screen \in {"none", screen}
    /\ view' = [view EXCEPT !.isLoading = TRUE, !.pending = screen]
    /\ UNCHANGED <<disk, clock, tz, calls, started, last, prev, bucketCall,
                   home, pref, settings, nav>>

\* The read of the trends screen's loadData settles and it runs to its end.
EndLoadTrends(rejected, elapsed) ==
    /\ view.pending = "trends"
    /\ UNCHANGED <<disk, clock, tz, calls, started, last, prev, bucketCall,
                   home, pref, settings, nav>>
    /\ TrendsLoaded("trends", view.timeRange, 0, rejected, elapsed, "mount")

\* The reads of the costs screen's loadData settle and it runs to its end:
\* to the early return when the cost is 0, through getLogsByDay otherwise.
EndLoadCosts(rejectedCost, rejected, elapsed) ==
    /\ view.pending = "costs"
    /\ UNCHANGED <<disk, clock, tz, calls, started, last, prev, bucketCall,
                   home, pref, settings, nav>>
    /\ CostsLoaded(view.timeRange, rejectedCost, FALSE, rejected, elapsed,
                   NoItem)

\* A store that is empty, unreadable or holds one entry; the cost of a
\* cigarette not saved, or saved as any of Costs.
InitLoading ==
    /\ disk \in {Null, Garbage, JSONStringify(<<NewLog(0)>>)}
    /\ clock = 0
    /\ tz = UTC
    /\ calls = [s \in Slots |-> Idle]
    /\ started = 0
    /\ last = NoCall
    /\ prev = NoCall
    /\ bucketCall = NoBucketCall
    /\ home = HomeInit
    /\ pref \in {[PrefInit EXCEPT !.store["cigaretteCost"] = item] :
                    item \in {NoItem} \cup {NumberToString(c) : c \in Costs}}
    /\ view = NoView
    /\ settings = SettingsInit
    /\ nav = NavInit

EndLoadTodaySettles ==
    \E rejectedLogs, rejectedGoal \in BOOLEAN :
        EndLoadToday(rejectedLogs, rejectedGoal)

EndLoadDataSettles ==
    \/ \E rejected \in BOOLEAN, elapsed \in Readings :
          EndLoadTrends(rejected, elapsed)
    \/ \E rejectedCost, rejected \in BOOLEAN, elapsed \in Readings :
          EndLoadCosts(rejectedCost, rejected, elapsed)

NextLoading ==
    \/ BeginLoadToday
    \/ EndLoadTodaySettles
    \/ \E screen \in {"trends", "costs"} : BeginLoadData(screen)
    \/ EndLoadDataSettles

SpecLoading == InitLoading /\ [][NextLoading]_vars

\* AsyncStorage settles every read it was asked for, resolved or rejected,
\* and the event loop then runs the continuation of the await: a load that
\* has started is not left waiting forever.
SpecLoadingFair ==
    SpecLoading /\ WF_vars(EndLoadTodaySettles) /\ WF_vars(EndLoadDataSettles)

----------------------------------------------------------------------------
(* The screens that show money, opened on a device of any locale with any
   currency stored or none. *)

InitCurrency ==
    /\ disk \in {Null, Garbage}
    /\ clock = 0
    /\ tz = UTC
    /\ calls = [s \in Slots |-> Idle]
    /\ started = 0
    /\ last = NoCall
    /\ prev = NoCall
    /\ bucketCall = NoBucketCall
    /\ home = HomeInit
    /\ pref \in {[PrefInit EXCEPT !.store["cigaretteCost"] = cost,
                                  !.store["currency"] = stored] :
                    cost \in {NoItem} \cup {NumberToString(c) : c \in Costs},
                    stored \in Locales}
    /\ view = NoView
    /\ settings = SettingsInit
    /\ nav = NavInit

NextCurrency ==
    \/ \E timeRange \in TimeRanges,
          rejectedCost, rejectedCurrency, rejected \in BOOLEAN,
          locale \in Locales :
          LoadCosts(timeRange, rejectedCost, rejectedCurrency, rejected, 0,
                    locale)
    \/ \E locale \in Locales : RenderCostField(locale)

SpecCurrency == InitCurrency /\ [][NextCurrency]_vars

----------------------------------------------------------------------------
(* Onboarding: the app is started any number of times, Get Started is
   pressed, the flag is read and reset. *)

NextWelcome ==
    \/ \E rejected \in BOOLEAN : CheckWelcome(rejected)
    \/ \E rejected \in BOOLEAN : GetStarted(rejected)
    \/ \E rejected \in BOOLEAN : CallHasSeenWelcome(rejected)
    \/ \E rejected \in BOOLEAN : CallSetHasSeenWelcome(rejected)
    \/ \E rejected \in BOOLEAN : CallResetWelcome(rejected)

SpecWelcome == Init /\ [][NextWelcome]_vars

----------------------------------------------------------------------------
(* Notions the claims are stated in *)

\* The log collection a stored value holds: its entries when it is the JSON
\* text of a collection, none when nothing or no JSON text is stored.
Persisted(d) == IF d.kind = "json" THEN d.items ELSE <<>>

\* How many times entry e occurs in the collection q.
Occurrences(q, e) == Cardinality({j \in 1..Len(q) : q[j] = e})

HasId(q, id) == \E j \in 1..Len(q) : q[j].id = id

\* The collection q without its entries of the given id, the others in
\* their order.
Without(q, id) ==
    LET keep == {j \in 1..Len(q) : q[j].id # id}
        nth(k) == CHOOSE j \in keep : Cardinality({i \in keep : i < j}) = k - 1
    IN  [k \in 1..Cardinality(keep) |-> q[nth(k)]]

\* The calendar date a bucket's Date was built from (the date its ISO text
\* names).
BucketDay(b) == toISOString(b.date).day

\* The local calendar date of a log entry.
LocalDay(e) == FormatDate(tz, parseISO(e.timestamp))

EntriesOn(logs, day) == Cardinality({j \in 1..Len(logs) : LocalDay(logs[j]) = day})

RECURSIVE SumCounts(_)
SumCounts(bs) == IF bs = <<>> THEN 0 ELSE Head(bs).count + SumCounts(Tail(bs))

----------------------------------------------------------------------------
(* Claims *)

\* C1: for days >= 0, getLogsByDay(days) returns exactly `days` buckets, on
\* consecutive local calendar days in increasing order, the last one being
\* the local calendar date of now.
C1_WindowIsContiguous ==
    (bucketCall.done /\ bucketCall.days >= 0) =>
        LET bs == bucketCall.buckets
            today == FormatDate(tz, bucketCall.now)
        IN  /\ Len(bs) = bucketCall.days
            /\ \A i \in 1..Len(bs) : BucketDay(bs[i]) = today - (Len(bs) - i)

\* C2: each bucket counts the entries whose local calendar date is the
\* bucket's date, and the counts add up to the number of entries whose local
\* date lies in the window of the `days` calendar days ending today.
C2_CountsMatchWindow ==
    (bucketCall.done /\ bucketCall.days >= 0) =>
        LET bs == bucketCall.buckets
            logs == bucketCall.logs
            today == FormatDate(tz, bucketCall.now)
            window == (today - bucketCall.days + 1)..today
        IN  /\ \A i \in 1..Len(bs) :
                  bs[i].count = EntriesOn(logs, BucketDay(bs[i]))
            /\ SumCounts(bs) =
                  Cardinality({j \in 1..Len(logs) : LocalDay(logs[j]) \in window})

\* C3: a getLogs that follows a successful addLog, and reads the store,
\* returns a collection holding the new entry exactly once.
C3_AddThenGetOnce ==
    (/\ last.op = "getLogs" /\ last.readOk
     /\ prev.op = "addLog" /\ ~prev.threw /\ ~prev.stale) =>
        Occurrences(last.ret, prev.log) = 1

\* C4: no two entries of the persisted collection have the same id.
C4_IdsUnique ==
    LET q == Persisted(disk)
    IN  \A i, j \in 1..Len(q) : q[i].id = q[j].id => i = j

\* C5: when an addLog that read the store before another addLog wrote has
\* completed, both successfully, the persisted collection holds both new
\* entries.
C5_NoLostUpdate ==
    (/\ last.op = "addLog" /\ ~last.threw /\ last.stale
     /\ prev.op = "addLog" /\ ~prev.threw) =>
        /\ Occurrences(Persisted(disk), last.log) >= 1
        /\ Occurrences(Persisted(disk), prev.log) >= 1

\* C6: when addLog returns successfully (no other call having written in
\* between), the persisted collection is the collection persisted before,
\* plus the new entry, whatever the outcome of the read inside addLog.
C6_AddKeepsEntries ==
    (last.op = "addLog" /\ ~last.threw /\ ~last.stale) =>
        Persisted(disk) = Append(Persisted(last.before), last.log)

\* C7: if the storage write fails during addLog or removeLog, the call
\* fails and the store holds what it held before the call (no other call
\* having written in between).
C7_WriteFailurePropagates ==
    (last.op \in {"addLog", "removeLog"} /\ ~last.writeOk) =>
        /\ last.threw
        /\ ~last.stale => disk = last.before

\* C7's case: a write that failed over a store that holds an entry.
C7_Witness ==
    /\ last.op \in {"addLog", "removeLog"}
    /\ ~last.writeOk
    /\ Len(Persisted(disk)) > 0

\* C8: a getLogs that follows a successful removeLog(id), and reads the
\* store, returns no entry of that id and exactly the other entries
\* persisted before the removeLog, unchanged.
C8_RemoveThenGet ==
    (/\ last.op = "getLogs" /\ last.readOk
     /\ prev.op = "removeLog" /\ ~prev.threw /\ ~prev.stale) =>
        /\ ~HasId(last.ret, prev.id)
        /\ last.ret = Without(Persisted(prev.before), prev.id)

\* C9: removeLog with the id of the removeLog before it is not an error
\* and returns and persists the collection the first one returned;
\* removeLog with an absent id leaves the persisted collection unchanged.
C9_RemoveIdempotent ==
    /\ (/\ last.op = "removeLog" /\ last.writeOk /\ ~last.stale
        /\ prev.op = "removeLog" /\ ~prev.threw /\ prev.id = last.id) =>
           /\ ~last.threw
           /\ last.ret = prev.ret
           /\ Persisted(disk) = prev.ret
    /\ (/\ last.op = "removeLog" /\ last.writeOk /\ ~last.stale
        /\ ~HasId(Persisted(last.before), last.id)) =>
           /\ ~last.threw
           /\ Persisted(disk) = Persisted(last.before)

\* C10: getLogs never fails its caller; it returns every persisted entry
\* when the stored value is read and parses, and the empty collection when
\* the key is absent, the read fails or the value does not parse.
C10_GetLogsTotal ==
    last.op = "getLogs" =>
        /\ ~last.threw
        /\ last.ret = IF last.readOk /\ last.before.kind = "json"
                      THEN last.before.items
                      ELSE <<>>

\* C10's case: the read fails while the store holds an entry.
C10_Witness ==
    /\ last.op = "getLogs"
    /\ ~last.readOk
    /\ Len(Persisted(last.before)) > 0

\* C11: when an add or a remove from the home screen fails because the
\* store write failed, the screen's list of today's entries, the displayed
\* count and the time-of-day statistics are unchanged, and an alert is shown.
C11_FailedTapLeavesScreen ==
    [][\A s \in Slots :
          (calls[s].pc = "write" /\ calls'[s].pc = "idle" /\ ~last'.writeOk) =>
              /\ home'.todayLogs = home.todayLogs
              /\ home'.count = home.count
              /\ home'.timeStats = home.timeStats
              /\ home'.alert # "none"]_vars

\* C11's case: a tap has failed while the screen shows an entry.
C11_Witness ==
    /\ home.alert # "none"
    /\ home.count > 0
    /\ ~last.writeOk

\* C19: a preference getter whose key is absent, or whose read fails, does
\* not throw and returns its default: getDailyGoal 0, getCigaretteCost 0,
\* hasSeenWelcome false, getCurrency null.
C19_GettersDefault ==
    LET c == pref.last
    IN  (/\ c.op \in {"getDailyGoal", "getCigaretteCost", "getCurrency",
                      "hasSeenWelcome"}
         /\ (c.rejected \/ c.before[c.key].kind = "null")) =>
            /\ ~c.threw
            /\ c.op = "getDailyGoal" => c.num = 0
            /\ c.op = "getCigaretteCost" => c.num = 0
            /\ c.op = "hasSeenWelcome" => c.bool = FALSE
            /\ c.op = "getCurrency" => c.item.kind = "null"

\* C19's case: the read of a getter fails while every preference is stored.
C19_Witness ==
    /\ pref.last.op \in {"getDailyGoal", "getCigaretteCost", "getCurrency",
                         "hasSeenWelcome"}
    /\ pref.last.rejected
    /\ \A k \in PrefKeys : pref.store[k].kind # "null"
    /\ pref.store["dailyGoal"].n > 0

\* The value the getter of a key returns when its read succeeds.
Got(store, key) ==
    IF key = "dailyGoal" THEN NumberToString(getDailyGoal(FALSE, store[key]))
    ELSE IF key = "cigaretteCost"
         THEN NumberToString(getCigaretteCost(FALSE, store[key]))
    ELSE IF key = "currency" THEN getCurrency(FALSE, store[key])
    ELSE StringItem(IF hasSeenWelcome(FALSE, store[key]) THEN "true" ELSE "false")

\* C20: when the write of setDailyGoal, setCigaretteCost, setCurrency or
\* setHasSeenWelcome fails, the call fails and the matching getter returns
\* what it returned before the call.
C20_SetterFailurePropagates ==
    LET c == pref.last
    IN  (/\ c.op \in {"setDailyGoal", "setCigaretteCost", "setCurrency",
                      "setHasSeenWelcome"}
         /\ c.rejected) =>
            /\ c.threw
            /\ Got(pref.store, c.key) = Got(c.before, c.key)

\* C20's case: a setter's write fails with a value other than the stored one.
C20_Witness ==
    /\ pref.last.op \in {"setDailyGoal", "setCigaretteCost", "setCurrency",
                         "setHasSeenWelcome"}
    /\ pref.last.rejected
    /\ pref.last.item # pref.store[pref.last.key]
    /\ pref.store[pref.last.key].kind # "null"

\* C18: getLogsByDay signals an invalid argument for a negative day count,
\* and returns an empty sequence, without an error, for a day count of 0.
C18_NegativeDaysRejected ==
    bucketCall.done =>
        /\ bucketCall.days < 0 => bucketCall.threw
        /\ bucketCall.days = 0 => (~bucketCall.threw /\ bucketCall.buckets = <<>>)

\* The local hour an entry of the home screen was logged at.
LocalHour(e) == GetHours(tz, parseISO(e.timestamp))

\* The hours of each part of the day: morning 5:00-11:59, afternoon
\* 12:00-16:59, evening 17:00-20:59, night the rest.
HoursOf(p) ==
    IF p = "morning" THEN 5..11
    ELSE IF p = "afternoon" THEN 12..16
    ELSE IF p = "evening" THEN 17..20
    ELSE (0..4) \cup (21..23)

\* C12: the home screen counts an entry as morning when 5 <= hour < 12, as
\* afternoon when 12 <= hour < 17, as evening when 17 <= hour < 21 and as
\* night otherwise, the hour being the local hour of the entry.
C12_TimeOfDayBoundaries ==
    \A p \in TimesOfDay :
        home.timeStats[p] =
            Cardinality({j \in 1..Len(home.todayLogs) :
                            LocalHour(home.todayLogs[j]) \in HoursOf(p)})

\* C12's case: the screen shows two entries on the two sides of a limit.
C12_Witness ==
    /\ ~home.isLoading
    /\ \E i, j \in 1..Len(home.todayLogs) :
          \E h \in {5, 12, 17, 21} :
              /\ LocalHour(home.todayLogs[i]) = h - 1
              /\ LocalHour(home.todayLogs[j]) = h

\* The entries of the store whose local date lies in the month of the
\* instant the screen was opened at.
EntriesOfMonth ==
    Cardinality({j \in 1..Len(Persisted(disk)) :
                    StartOfMonth(LocalDay(Persisted(disk)[j]))
                        = StartOfMonth(FormatDate(tz, view.now))})

\* C13: with the month range, the total of the trends and of the costs
\* screen is the number of stored entries whose local date lies in the
\* current calendar month, on every day of the month.
C13_MonthTotal ==
    (view.screen \in {"trends", "costs"} /\ view.timeRange = "month") =>
        view.total = EntriesOfMonth

\* C14: no day of the buckets the week's or the month's total and average
\* are computed from is later than the day the screen was opened on.
C14_PeriodToDate ==
    view.screen \in {"trends", "trendsSpaced"} =>
        \A i \in 1..Len(view.period) :
            FormatDate(tz, view.period[i].date) <= FormatDate(tz, view.now)

\* The total of the period a screen reports: cigarettes on the trends
\* screen, money on the costs screen.
PeriodTotal == IF view.screen = "costs" THEN view.totalSpent ELSE view.total

\* C15, as stated: the daily average of a period is its total divided by
\* the number of its day buckets.
C15_AverageIsQuotient ==
    (view.screen # "none" /\ view.period # <<>>) =>
        /\ ~view.dailyAverage.nan
        /\ view.dailyAverage.num * Len(view.period)
               = PeriodTotal * view.dailyAverage.den

\* C15, amended: on the costs screen the daily average is the money spent
\* in the period divided by the number of its day buckets; on the trends
\* screen it is the period's total divided by the number of its day buckets
\* and rounded to one decimal: a multiple of 0.1 at most 0.05 away from the
\* quotient.
C15_AverageRounded ==
    LET avg == view.dailyAverage
        n == Len(view.period)
        diff == avg.num * n - PeriodTotal * avg.den
    IN  (view.screen # "none" /\ view.period # <<>>) =>
            /\ ~avg.nan
            /\ view.screen = "costs" => diff = 0
            /\ view.screen # "costs" =>
                  /\ (10 * avg.num) % avg.den = 0
                  /\ 20 * (IF diff < 0 THEN -diff ELSE diff) <= avg.den * n

\* C15's case: the trends screen reports an average that is not the exact
\* quotient.
C15_Witness ==
    /\ view.screen = "trends"
    /\ view.period # <<>>
    /\ view.total > 0
    /\ view.dailyAverage.num * Len(view.period)
           # view.total * view.dailyAverage.den

\* C16: when the period has no day bucket, the total and the daily average
\* are 0, and the average is a number.
C16_EmptyPeriod ==
    (view.screen # "none" /\ view.period = <<>>) =>
        /\ view.total = 0
        /\ view.totalSpent = 0
        /\ ~view.dailyAverage.nan
        /\ view.dailyAverage.num = 0

\* C16's case: the days were computed, entries are stored, and none of the
\* days lies in the period.
C16_Witness ==
    /\ view.screen = "trends"
    /\ view.data # <<>>
    /\ view.logs # <<>>
    /\ view.period = <<>>

\* C17: the costs screen derives one spending item for each day of the
\* trailing window, its amount the day's count times the cost of a
\* cigarette, also when that cost is 0.
C17_SpendingPerBucket ==
    view.screen = "costs" =>
        /\ Len(view.data) = RangeDays(view.timeRange)
        /\ \A i \in 1..Len(view.data) :
              view.data[i].amount = view.data[i].count * view.cost

\* The goal that is persisted: what getDailyGoal returns when its read
\* succeeds.
PersistedGoal == getDailyGoal(FALSE, pref.store["dailyGoal"])

\* C21: after a save of the daily goal from the settings screen has failed,
\* the goal the screen displays is the goal that is persisted.
C21_FailedSaveKeepsGoal ==
    (settings.last.op = "adjustGoal" /\ settings.last.failed) =>
        ParseIntOrZero(settings.inputValue) = PersistedGoal

\* C22: whatever was edited and saved on the settings screens, the persisted
\* daily goal is a non-negative integer, and so is what getDailyGoal returns.
C22_GoalNonNegative ==
    /\ pref.store["dailyGoal"].kind # "null" =>
          (pref.store["dailyGoal"].kind = "num" /\ pref.store["dailyGoal"].n >= 0)
    /\ PersistedGoal >= 0

\* The currency the spec has a money screen use: the stored code when one
\* is set, else the code of the device's locale, else USD.
ExpectedCurrency(stored, locale) ==
    IF stored.kind # "null" THEN stored
    ELSE IF locale.kind # "null" THEN locale
    ELSE StringItem("USD")

\* C23: every screen that shows money shows it in the stored currency when
\* one is set, else in the currency of the device's locale, else in USD:
\* the costs screen once loaded, and the settings screen once its cost field
\* is rendered.
C23_CurrencyFallback ==
    /\ view.screen = "costs" =>
           view.currency = ExpectedCurrency(pref.store["currency"], view.locale)
    /\ settings.currency.kind # "null" =>
           settings.currency =
               ExpectedCurrency(pref.store["currency"], settings.locale)

\* C24: on the trends screen a tick of the 2-second timer starts a load
\* only to pick up a change of the store: while the store holds what the
\* last load read, no tick starts another load.
C24_PollReloadsOnlyOnChange ==
    [][(view' # view /\ view'.startedBy = "poll") =>
           Persisted(disk) # view.logs]_vars

\* Every add and remove tap of the home screen has completed: no store call
\* is in flight.
TapsCompleted == ~home.isLoading /\ \A s \in Slots : calls[s].pc = "idle"

\* C25: once every add and remove tap of the home screen has completed,
\* taps that overlapped included, the count on the screen is the number of
\* persisted entries dated today.
C25_CountIsPersistedToday ==
    TapsCompleted =>
        home.count = EntriesOn(Persisted(disk), FormatDate(tz, clock))

\* A list without its last entry.
AllButLast(logs) == SubSeq(logs, 1, Len(logs) - 1)

\* C29: the count on the home screen is never negative; a remove tap starts
\* a removal only while the count is positive (at 0 it changes nothing), and
\* a removal that succeeds takes the last entry, and only it, off today's
\* in-memory list.
C29_RemoveTakesLast ==
    [][/\ home'.count >= 0
       /\ \A s \in Slots :
             (/\ calls[s].pc = "idle" /\ calls'[s].pc # "idle"
              /\ calls'[s].op = "removeLog") => home.count > 0
       /\ \A s \in Slots :
             (/\ calls[s].op = "removeLog"
              /\ calls[s].pc = "write" /\ calls'[s].pc = "idle"
              /\ ~last'.threw) =>
                 home'.todayLogs = AllButLast(home.todayLogs)]_vars

\* C26: on the trends and the costs screen the value plotted for a day is
\* the count getLogsByDay computed for that local date, in every zone: no
\* count is shown under a neighbouring day and none is dropped.
C26_PlottedIsBucketOfDay ==
    view.screen \in {"trends", "trendsSpaced", "costs"} =>
        \A buckets \in {getLogsByDay(tz, view.now, view.logs,
                                     RangeDays(view.timeRange))} :
            \A i \in 1..Len(view.data), b \in 1..Len(buckets) :
                BucketDay(buckets[b]) = FormatDate(tz, view.data[i].date) =>
                    view.data[i].count = buckets[b].count

\* C30: every load of the home, the trends and the costs screen that has
\* started is followed by isLoading being false, whether its reads succeed
\* or fail and whether the costs screen returns early (cost 0) or not.
C30_LoadingEnds ==
    /\ home.pending ~> ~home.isLoading
    /\ (view.pending # "none") ~> ~view.isLoading

\* C30's case: the costs screen has returned early from a load and the home
\* screen has loaded after a failed read; neither shows its spinner.
C30_Witness ==
    /\ view.screen = "costs" /\ view.cost = 0
    /\ view.pending = "none" /\ ~view.isLoading
    /\ ~home.pending /\ ~home.isLoading
    /\ disk # Null /\ home.count = 0

\* C27: at app start the welcome screen is shown exactly when
\* hasSeenWelcome returns false; a user whose flag is stored is routed to
\* the tabs.
C27_WelcomeIffNotSeen ==
    nav.last.op = "checkWelcome" =>
        (nav.route = "welcome" <=> ~nav.last.seen)

\* The onboarding flag is stored.
SeenStored == pref.store["hasSeenWelcome"] = StringItem("true")

\* The flag was stored when hasSeenWelcome was last called.
SeenAtCall == pref.last.before["hasSeenWelcome"] = StringItem("true")

\* C28, as stated: Get Started ends on the tabs whether its write succeeded
\* or failed; when it succeeded the flag is stored and stays stored until
\* resetWelcome is called, and hasSeenWelcome returns true as long as it is.
C28_GetStartedAlwaysTrue ==
    [][/\ (nav' # nav /\ nav'.last.op = "handleGetStarted") =>
              /\ nav'.route = "tabs"
              /\ ~nav'.last.threw => SeenStored'
       /\ (SeenStored /\ ~SeenStored') => pref'.last.op = "resetWelcome"
       /\ (pref'.last.op = "hasSeenWelcome" /\ SeenAtCall') => pref'.last.bool]_vars

\* C28, amended: the same, but hasSeenWelcome returns true while the flag
\* is stored only when its read succeeds; on a failed read it returns false.
C28_GetStartedSeenWhenRead ==
    [][/\ (nav' # nav /\ nav'.last.op = "handleGetStarted") =>
              /\ nav'.route = "tabs"
              /\ ~nav'.last.threw => SeenStored'
       /\ (SeenStored /\ ~SeenStored') => pref'.last.op = "resetWelcome"
       /\ (pref'.last.op = "hasSeenWelcome" /\ SeenAtCall') =>
              (pref'.last.bool <=> ~pref'.last.rejected)]_vars

\* C28's case: Get Started was pressed, its write failed, and the tabs are
\* shown with no flag stored.
C28_Witness ==
    /\ nav.last.op = "handleGetStarted"
    /\ nav.last.threw
    /\ nav.route = "tabs"
    /\ ~SeenStored

====
